---- MODULE Spec2Model ----
(***************************************************************************)
(* Blog backend: registration, login, posts and comments behind a bearer   *)
(* token guard with per-resource ownership checks.  Every request is an    *)
(* independent task; a task runs from one suspension point (await) to the  *)
(* next in one step, and the store executes one statement per step.        *)
(***************************************************************************)
EXTENDS Integers, Sequences, FiniteSets, TLC

\* ---------------------------------------------------------------- bounds
MaxReqs == 2
MaxUsers == 2
MaxPosts == 1
MaxComments == 1
MaxListed == 3
MaxTokens == 2
MaxClock == 3600
TickStep == 1800

\* ------------------------------------------------------ program constants
UsernameMin == 3
UsernameMax == 20
PasswordMin == 8
PasswordMax == 30
EmailMin == 1
TitleMin == 3
TitleMax == 20
ContentMin == 3
CommentMin == 3
CommentMax == 500
ExpiresIn == 3600

JWT_SECRET == "secret"
Undefined == "<undefined>"
NoUser == 0

Slots == 1..MaxReqs

\* ------------------------------------------------------------- validation
StrBetween(s, lo, hi) == s # Undefined /\ Len(s) >= lo /\ Len(s) <= hi
StrAtLeast(s, lo) == s # Undefined /\ Len(s) >= lo
Optional(s, ok) == s = Undefined \/ ok

\* username bound off by one at the top
UserSchemaLoose(b) ==
    /\ StrBetween(b.username, UsernameMin, UsernameMax + 1)
    /\ StrAtLeast(b.email, EmailMin)
    /\ StrBetween(b.password, PasswordMin, PasswordMax)
UserSchema(b) ==
    /\ StrBetween(b.username, UsernameMin, UsernameMax)
    /\ StrAtLeast(b.email, EmailMin)
    /\ StrBetween(b.password, PasswordMin, PasswordMax)

SigninSchem(b) ==
    /\ Optional(b.username, StrBetween(b.username, UsernameMin, UsernameMax))
    /\ Optional(b.email, StrAtLeast(b.email, EmailMin))
    /\ StrBetween(b.password, PasswordMin, PasswordMax)

createPostSchema(b) ==
    /\ StrBetween(b.title, TitleMin, TitleMax)
    /\ StrAtLeast(b.content, ContentMin)

Truthy(s) == s # Undefined /\ Len(s) > 0

\* the schema without its refinement
updatePostSchemaNoRefine(b) ==
    /\ Optional(b.title, StrBetween(b.title, TitleMin, TitleMax))
    /\ Optional(b.content, StrAtLeast(b.content, ContentMin))
updatePostSchema(b) ==
    /\ Optional(b.title, StrBetween(b.title, TitleMin, TitleMax))
    /\ Optional(b.content, StrAtLeast(b.content, ContentMin))
    /\ (Truthy(b.title) \/ Truthy(b.content))

\* the schema without its upper bound
CommentSchemaUnbounded(b) == StrAtLeast(b.content, CommentMin)
CommentSchema(b) == StrBetween(b.content, CommentMin, CommentMax)

\* ----------------------------------------------------- credential service
\* bcrypt.hash(password, 10): a salted one-way digest, never the plaintext.
Hash(pw, salt) == [alg |-> "bcrypt", salt |-> salt, digest |-> pw]
\* a comparison that accepts any password
CompareAny(pw, h) == TRUE
\* bcrypt.compare(password, hash)
Compare(pw, h) == h.digest = pw

\* jwt.sign({userId}, JWT_SECRET, {expiresIn: "1h"}) at time t
Sign(uid, secret, t) ==
    [kind |-> "jwt", userId |-> uid, iat |-> t, exp |-> t + ExpiresIn, sig |-> secret]

NoToken == [kind |-> "none", userId |-> NoUser, iat |-> 0, exp |-> 0, sig |-> ""]
Garbage == [kind |-> "garbage", userId |-> NoUser, iat |-> 0, exp |-> 0, sig |-> ""]
Forged(uid) == Sign(uid, "not-the-secret", 0)

\* jwt.verify(token, secret) at time t: TRUE when it returns the payload,
\* FALSE when it throws (jwt must be provided, jwt malformed, invalid
\* signature, jwt expired).
VerifyExpired(tok, t) == t >= tok.exp
\* a verification that does not look at the signature
VerifyAnySignature(tok, secret, t) ==
    /\ tok.kind = "jwt"
    /\ ~VerifyExpired(tok, t)
Verify(tok, secret, t) ==
    /\ tok.kind = "jwt"
    /\ tok.sig = secret
    /\ ~VerifyExpired(tok, t)

\* --------------------------------------------------------------- payloads
Body(u, e, p, t, c, pid) ==
    [username |-> u, email |-> e, password |-> p, title |-> t, content |-> c, post_id |-> pid]
NoBody == Body(Undefined, Undefined, Undefined, Undefined, Undefined, 0)
RegBody(u, e, p) == Body(u, e, p, Undefined, Undefined, 0)
PostBody(t, c) == Body(Undefined, Undefined, Undefined, t, c, 0)
CommentBody(c, pid) == Body(Undefined, Undefined, Undefined, Undefined, c, pid)

LongName == "abcdefghijklmnopqrstu"
RegisterBodies ==
    { RegBody("alice", "a@x", "password1"),
      RegBody("bob", "b@x", "password2"),
      RegBody("alice", "b@x", "password2"),
      RegBody("bob", "a@x", "password2"),
      RegBody("al", "c@x", "password1"),
      RegBody(LongName, "c@x", "password1") }
LoginBodies ==
    { RegBody("alice", Undefined, "password1"),
      RegBody("alice", Undefined, "password2"),
      RegBody(Undefined, "a@x", "password1"),
      RegBody("bob", "a@x", "password2"),
      RegBody(Undefined, Undefined, "password1"),
      RegBody("alice", Undefined, "short") }
Salts == {"s1"}

\* ------------------------------------------------------------------ state
VARIABLES
    users,      \* User table: id -> [username, email, password]
    posts,      \* Post table: id -> [title, content, author_id, created_at]
    comments,   \* Comment table: id -> [content, post_id, author_id, created_at]
    postSeq,    \* ids handed out so far by the Post table (ids are never reused)
    commentSeq, \* ids handed out so far by the Comment table
    now,        \* wall clock, seconds
    issued,     \* tokens handed to clients by Login
    reqs        \* per task slot: the request in flight, or the last one answered
store == <<users, posts, comments, postSeq, commentSeq>>
vars == <<users, posts, comments, postSeq, commentSeq, now, issued, reqs>>

NoResp == [status |-> 0, message |-> ""]
Resp(st, msg) == [status |-> st, message |-> msg]
Idle ==
    [op |-> "none", pc |-> "idle", token |-> NoToken, at |-> 0, id |-> 0, body |-> NoBody,
     userId |-> NoUser, calls |-> 0, failed |-> FALSE, escaped |-> FALSE, sent |-> 0,
     token_out |-> NoToken, resp |-> NoResp, data |-> << >>,
     method |-> "", path |-> << >>]
NewReq(op, tok, id, body) ==
    [Idle EXCEPT !.op = op, !.pc = "start", !.token = tok, !.at = now, !.id = id, !.body = body]

Init ==
    /\ users = << >>
    /\ posts = << >>
    /\ comments = << >>
    /\ postSeq = 0
    /\ commentSeq = 0
    /\ now = 0
    /\ issued = {}
    /\ reqs = [r \in Slots |-> Idle]

\* --------------------------------------------------- response and failure
\* A new request is taken by the first task slot that is not in flight.
\* The records of requests answered earlier are dropped when it arrives: a
\* response is on record from the step that sends it until the next arrival.
Vacant(r) == reqs[r].pc \in {"idle", "done"}
Free(r) == Vacant(r) /\ \A o \in Slots : o < r => ~Vacant(o)
Others(q) ==
    IF q.pc = "start" THEN [o \in Slots |-> IF Vacant(o) THEN Idle ELSE reqs[o]] ELSE reqs
\* res.status(st).json({message}) as the handler's last act: the task ends.
Answer(r, q, st, msg) ==
    reqs' = [Others(q) EXCEPT ![r] = [q EXCEPT !.pc = "done", !.resp = Resp(st, msg),
                                               !.sent = q.sent + 1]]
\* The task suspends at an await: it stays in flight at position pc.
Suspend(r, q, pc) == reqs' = [Others(q) EXCEPT ![r] = [q EXCEPT !.pc = pc]]
\* A synchronous throw inside a middleware is caught by the router, whose
\* default error handler answers 500 with an HTML page.
SyncThrow(r, q) ==
    Answer(r, [q EXCEPT !.escaped = TRUE], 500, "<html>Internal Server Error</html>")
\* A rejection of an async handler's promise is nobody's: depending on the
\* router's major version it is routed to the default error handler (500)
\* or dropped, in which case the request never gets a response.
AsyncReject(r, q) ==
    \/ Answer(r, [q EXCEPT !.escaped = TRUE], 500, "<html>Internal Server Error</html>")
    \/ reqs' = [Others(q) EXCEPT ![r] = [q EXCEPT !.escaped = TRUE, !.pc = "hung"]]

\* ------------------------------------------------------------- user table
UserIds == DOMAIN users
\* no unique index on email
EmailNeverTaken(e) == FALSE
EmailTaken(e) == \E u \in UserIds : users[u].email = e
UsernameTaken(n) == \E u \in UserIds : users[u].username = n
FindByUsername(n) == {u \in UserIds : users[u].username = n}
FindByEmail(e) == {u \in UserIds : users[u].email = e}

\* -------------------------------------------------------- POST /register
Register(r, bodies) ==
    /\ Free(r)
    /\ \E b \in bodies :
        LET q == NewReq("register", NoToken, 0, b) IN
        IF ~UserSchema(b)
        THEN Answer(r, q, 422, "Incorrect input")
        ELSE Suspend(r, q, "create")
    /\ UNCHANGED <<store, now, issued>>

\* await bcrypt.hash; await Client.user.create; any throw -> 409
\* a create that writes over the row that holds the e-mail (an upsert)
RegisterCreateUpsert(r) ==
    /\ reqs[r].op = "register" /\ reqs[r].pc = "create"
    /\ LET q == [reqs[r] EXCEPT !.calls = @ + 1] IN
       \/ /\ Answer(r, [q EXCEPT !.failed = TRUE], 409, "User Already exists")
          /\ UNCHANGED users
       \/ \E u \in FindByEmail(q.body.email) :
          /\ \E salt \in Salts :
               users' = [users EXCEPT ![u] = [username |-> q.body.username,
                                              email |-> q.body.email,
                                              password |-> Hash(q.body.password, salt)]]
          /\ Answer(r, [q EXCEPT !.userId = u], 200, "Registration successfull")
       \/ /\ ~EmailTaken(q.body.email)
          /\ UsernameTaken(q.body.username)
          /\ Answer(r, q, 409, "User Already exists")
          /\ UNCHANGED users
       \/ /\ ~EmailTaken(q.body.email)
          /\ ~UsernameTaken(q.body.username)
          /\ Len(users) < MaxUsers
          /\ \E salt \in Salts :
               users' = Append(users, [username |-> q.body.username,
                                       email |-> q.body.email,
                                       password |-> Hash(q.body.password, salt)])
          /\ Answer(r, [q EXCEPT !.userId = Len(users) + 1], 200, "Registration successfull")
    /\ UNCHANGED <<posts, comments, postSeq, commentSeq, now, issued>>

RegisterCreate(r) ==
    /\ reqs[r].op = "register" /\ reqs[r].pc = "create"
    /\ LET q == [reqs[r] EXCEPT !.calls = @ + 1] IN
       \/ \* the store (or the hashing) fails for an unexpected reason
          /\ Answer(r, [q EXCEPT !.failed = TRUE], 409, "User Already exists")
          /\ UNCHANGED users
       \/ /\ (EmailTaken(q.body.email) \/ UsernameTaken(q.body.username))
          /\ Answer(r, q, 409, "User Already exists")
          /\ UNCHANGED users
       \/ /\ ~EmailTaken(q.body.email)
          /\ ~UsernameTaken(q.body.username)
          /\ Len(users) < MaxUsers
          /\ \E salt \in Salts :
               users' = Append(users, [username |-> q.body.username,
                                       email |-> q.body.email,
                                       password |-> Hash(q.body.password, salt)])
          /\ Answer(r, [q EXCEPT !.userId = Len(users) + 1], 200, "Registration successfull")
    /\ UNCHANGED <<posts, comments, postSeq, commentSeq, now, issued>>

\* ----------------------------------------------------------- POST /login
Login(r, bodies) ==
    /\ Free(r)
    /\ \E b \in bodies :
        LET q == NewReq("login", NoToken, 0, b) IN
        IF ~SigninSchem(b)
        THEN Answer(r, q, 422, "Invalid Input")
        ELSE IF Truthy(b.username) \/ Truthy(b.email)
        THEN Suspend(r, q, "lookup")
        ELSE Answer(r, q, 404, "Not Authorized")
    /\ UNCHANGED <<store, now, issued>>

\* await Client.user.findUnique; await bcrypt.compare; jwt.sign
LoginLookup(r) ==
    /\ reqs[r].op = "login" /\ reqs[r].pc = "lookup"
    /\ LET q == [reqs[r] EXCEPT !.calls = @ + 1]
           found == IF Truthy(q.body.username)
                    THEN FindByUsername(q.body.username)
                    ELSE FindByEmail(q.body.email)
       IN
       \/ \* findUnique rejects: nothing around it catches
          /\ AsyncReject(r, [q EXCEPT !.failed = TRUE])
          /\ UNCHANGED issued
       \/ /\ found = {}
          /\ Answer(r, q, 404, "Not Authorized")
          /\ UNCHANGED issued
       \/ \E u \in found :
            \/ \* bcrypt.compare rejects: nothing around it catches
               /\ AsyncReject(r, [q EXCEPT !.failed = TRUE])
               /\ UNCHANGED issued
            \/ /\ ~Compare(q.body.password, users[u].password)
               /\ Answer(r, q, 401, "Not correct password")
               /\ UNCHANGED issued
            \/ /\ Compare(q.body.password, users[u].password)
               /\ LET tok == Sign(u, JWT_SECRET, now) IN
                  /\ (tok \in issued \/ Cardinality(issued) < MaxTokens)
                  /\ issued' = issued \cup {tok}
                  /\ Answer(r, [q EXCEPT !.token_out = tok], 200, "Login successful")
    /\ UNCHANGED <<store, now>>

\* ------------------------------------------------------ request inputs
Tokens == {NoToken, Garbage, Forged(2)} \cup issued
PostIdParams == 1..MaxPosts
CommentIdParams == 1..MaxComments
CreatePostBodies == { PostBody("Hello", "First post"), PostBody("Hi", "First post") }
UpdatePostBodies ==
    { PostBody("Edited", Undefined), PostBody(Undefined, "New content"),
      PostBody(Undefined, Undefined), PostBody("Edited", "no") }
CreateCommentBodies ==
    { CommentBody("Nice post", pid) : pid \in 0..MaxPosts } \cup { CommentBody("no", 1) }
UpdateCommentBodies == { CommentBody("Edited comment", 0), CommentBody("no", 0) }

\* ------------------------------------------------------- authorization guard
\* a guard that lets every request through
middlewarePermissive(tok, t) == "next"
\* middleware(req, res, next): "next" when jwt.verify returns the payload,
\* "throw" when it throws.  jwt.verify never returns a falsy value, so the
\* else branch that answers 404 "Not Authorized" is never taken.
middleware(tok, t) == IF Verify(tok, JWT_SECRET, t) THEN "next" ELSE "throw"
\* req.userId = decoded.userId
Authed(q) == [q EXCEPT !.userId = q.token.userId]

\* ------------------------------------------------------- post/comment tables
PostIds == DOMAIN posts
CommentIds == DOMAIN comments
\* a delete that removes nothing
WithoutNothing(f, k) == f
Without(f, k) == [x \in (DOMAIN f) \ {k} |-> f[x]]
With(f, k, v) == [x \in (DOMAIN f) \cup {k} |-> IF x = k THEN v ELSE f[x]]
\* a foreign key that restricts nothing
HasCommentsIgnored(p) == FALSE
HasComments(p) == \E c \in CommentIds : comments[c].post_id = p
\* an update that moves the old title into a content the payload left out
UpdateDataShift(row, b) ==
    [row EXCEPT !.title = IF b.title # Undefined THEN b.title ELSE @,
                !.content = IF b.content # Undefined THEN b.content ELSE row.title]
\* an update that writes both fields, supplied or not
UpdateDataWhole(row, b) == [row EXCEPT !.title = b.title, !.content = b.content]
\* an update that also hands the row to another user
UpdateDataReassign(row, b) ==
    [row EXCEPT !.title = IF b.title # Undefined THEN b.title ELSE @,
                !.content = IF b.content # Undefined THEN b.content ELSE @,
                !.author_id = CHOOSE u \in UserIds : u # row.author_id]
\* the whole user row included
AuthorWhole(u) ==
    [id |-> u, username |-> users[u].username, email |-> users[u].email,
     password |-> users[u].password]
\* include/select author: { id, username, email }
Author(u) == [id |-> u, username |-> users[u].username, email |-> users[u].email]
\* a comment as findMany returns it with include athor
CommentRow(c) ==
    [id |-> c, content |-> comments[c].content, post_id |-> comments[c].post_id,
     author_id |-> comments[c].author_id, created_at |-> comments[c].created_at,
     athor |-> Author(comments[c].author_id)]
CommentsOf(p) == { CommentRow(c) : c \in {x \in CommentIds : comments[x].post_id = p} }
\* a post returned with its title in the place of its content
PostRowMixed(p, cs) ==
    [id |-> p, title |-> posts[p].title, content |-> posts[p].title,
     author_id |-> posts[p].author_id, created_at |-> posts[p].created_at,
     author |-> Author(posts[p].author_id), comments |-> cs]
\* a post as find returns it with include author and comments
PostRow(p, cs) ==
    [id |-> p, title |-> posts[p].title, content |-> posts[p].content,
     author_id |-> posts[p].author_id, created_at |-> posts[p].created_at,
     author |-> Author(posts[p].author_id), comments |-> cs]
\* the post as update returns it with include author
PostUpdated(p, row) ==
    [id |-> p, title |-> row.title, content |-> row.content, author_id |-> row.author_id,
     created_at |-> row.created_at, author |-> Author(row.author_id)]
\* the comment as update returns it
CommentUpdated(c, row) ==
    [id |-> c, content |-> row.content, post_id |-> row.post_id,
     author_id |-> row.author_id, created_at |-> row.created_at]
\* select of GET comments: athor { id, username }, id, content, created_at
CommentSelected(c) ==
    [id |-> c, content |-> comments[c].content, created_at |-> comments[c].created_at,
     athor |-> [id |-> comments[c].author_id,
                username |-> users[comments[c].author_id].username]]
\* ordered by created_at ascending
OrderByCreatedAsc(rows) ==
    { f \in [1..Cardinality(rows) -> rows] :
        /\ \A x \in rows : \E i \in DOMAIN f : f[i] = x
        /\ \A i, j \in DOMAIN f : i < j => f[i].created_at <= f[j].created_at }
\* orderBy: { created_at: "desc" }: the arrays the store may return; rows
\* with equal created_at come in either order
OrderByCreatedDesc(rows) ==
    { f \in [1..Cardinality(rows) -> rows] :
        /\ \A x \in rows : \E i \in DOMAIN f : f[i] = x
        /\ \A i, j \in DOMAIN f : i < j => f[i].created_at >= f[j].created_at }

\* updateData holds only the fields the payload supplied
UpdateData(row, b) ==
    [row EXCEPT !.title = IF b.title # Undefined THEN b.title ELSE @,
                !.content = IF b.content # Undefined THEN b.content ELSE @]

\* ------------------------------------------------------------ POST /posts
CreatePost(r, toks, bodies) ==
    /\ Free(r)
    /\ \E tok \in toks, b \in bodies :
        LET q == NewReq("createPost", tok, 0, b) IN
        IF middleware(tok, now) = "throw" THEN SyncThrow(r, q)
        ELSE IF ~createPostSchema(b) THEN Answer(r, Authed(q), 400, "Validationn Failed")
        ELSE Suspend(r, Authed(q), "create")
    /\ UNCHANGED <<store, now, issued>>

CreatePostStore(r, cap) ==
    /\ reqs[r].op = "createPost" /\ reqs[r].pc = "create"
    /\ LET q == [reqs[r] EXCEPT !.calls = @ + 1] IN
       \/ /\ Answer(r, [q EXCEPT !.failed = TRUE], 500, "Unable to create Post")
          /\ UNCHANGED <<posts, postSeq>>
       \/ /\ q.userId \notin UserIds
          /\ Answer(r, q, 500, "Unable to create Post")
          /\ UNCHANGED <<posts, postSeq>>
       \/ /\ q.userId \in UserIds
          /\ postSeq < cap
          /\ postSeq' = postSeq + 1
          /\ posts' = With(posts, postSeq + 1,
                           [title |-> q.body.title, content |-> q.body.content,
                            author_id |-> q.userId, created_at |-> now])
          /\ Answer(r, [q EXCEPT !.id = postSeq + 1], 200, "Post Created")
    /\ UNCHANGED <<users, comments, commentSeq, now, issued>>

\* ------------------------------------------------------------- GET /posts
ListPosts(r, toks) ==
    /\ Free(r)
    /\ \E tok \in toks :
        LET q == NewReq("listPosts", tok, 0, NoBody) IN
        IF middleware(tok, now) = "throw" THEN SyncThrow(r, q)
        ELSE Suspend(r, Authed(q), "find")
    /\ UNCHANGED <<store, now, issued>>

ListPostsStore(r) ==
    /\ reqs[r].op = "listPosts" /\ reqs[r].pc = "find"
    /\ LET q == [reqs[r] EXCEPT !.calls = @ + 1] IN
       \/ Answer(r, [q EXCEPT !.failed = TRUE], 500, "Error from server, not able to get post")
       \/ \* the comments of a post are included without an orderBy: a set
          \E out \in OrderByCreatedDesc({ PostRow(p, CommentsOf(p)) : p \in PostIds }) :
             Answer(r, [q EXCEPT !.data = out], 200, "Got all posts")
    /\ UNCHANGED <<store, now, issued>>

\* ----------------------------------------------------- GET /posts/:postId
GetPost(r, toks, ids) ==
    /\ Free(r)
    /\ \E tok \in toks, id \in ids :
        LET q == NewReq("getPost", tok, id, NoBody) IN
        IF middleware(tok, now) = "throw" THEN SyncThrow(r, q)
        ELSE Suspend(r, Authed(q), "find")
    /\ UNCHANGED <<store, now, issued>>

\* a read that stamps the post it returns
GetPostStoreStamping(r) ==
    /\ reqs[r].op = "getPost" /\ reqs[r].pc = "find"
    /\ LET q == [reqs[r] EXCEPT !.calls = @ + 1] IN
       \/ /\ Answer(r, [q EXCEPT !.failed = TRUE], 500,
                    "Error from server, not able to get the single post")
          /\ UNCHANGED posts
       \/ /\ q.id \notin PostIds
          /\ Answer(r, q, 404, "Post not found")
          /\ UNCHANGED posts
       \/ /\ q.id \in PostIds
          /\ posts' = [posts EXCEPT ![q.id].created_at = now]
          /\ \E cs \in OrderByCreatedDesc(CommentsOf(q.id)) :
                Answer(r, [q EXCEPT !.data = << PostRow(q.id, cs) >>], 200,
                       "Got the single post")
    /\ UNCHANGED <<users, comments, postSeq, commentSeq, now, issued>>

GetPostStore(r) ==
    /\ reqs[r].op = "getPost" /\ reqs[r].pc = "find"
    /\ LET q == [reqs[r] EXCEPT !.calls = @ + 1] IN
       \/ Answer(r, [q EXCEPT !.failed = TRUE], 500,
                 "Error from server, not able to get the single post")
       \/ /\ q.id \notin PostIds
          /\ Answer(r, q, 404, "Post not found")
       \/ /\ q.id \in PostIds
          /\ \E cs \in OrderByCreatedDesc(CommentsOf(q.id)) :
                Answer(r, [q EXCEPT !.data = << PostRow(q.id, cs) >>], 200,
                       "Got the single post")
    /\ UNCHANGED <<store, now, issued>>

\* ----------------------------------------------------- PUT /posts/:postId
UpdatePost(r, toks, ids, bodies) ==
    /\ Free(r)
    /\ \E tok \in toks, id \in ids, b \in bodies :
        LET q == NewReq("updatePost", tok, id, b) IN
        IF middleware(tok, now) = "throw" THEN SyncThrow(r, q)
        ELSE IF ~updatePostSchema(b) THEN Answer(r, Authed(q), 400, "Incorrect input")
        ELSE Suspend(r, Authed(q), "find")
    /\ UNCHANGED <<store, now, issued>>

\* the ownership check left out
IsPostAuthorSkipped(q) == TRUE
\* the ownership check of PUT and DELETE /posts/:postId
IsPostAuthor(q) == posts[q.id].author_id = q.userId

UpdatePostFind(r) ==
    /\ reqs[r].op = "updatePost" /\ reqs[r].pc = "find"
    /\ LET q == [reqs[r] EXCEPT !.calls = @ + 1] IN
       \/ Answer(r, [q EXCEPT !.failed = TRUE], 500, "Server error")
       \/ /\ q.id \notin PostIds
          /\ Answer(r, q, 404, "Post not found")
       \/ /\ q.id \in PostIds
          /\ IF ~IsPostAuthor(q)
             THEN Answer(r, q, 403, "Invalid author")
             ELSE Suspend(r, q, "update")
    /\ UNCHANGED <<store, now, issued>>

\* an update that writes the row back when it is gone (an upsert)
UpdatePostUpsert(r) ==
    /\ reqs[r].op = "updatePost" /\ reqs[r].pc = "update"
    /\ LET q == [reqs[r] EXCEPT !.calls = @ + 1] IN
       \/ /\ Answer(r, [q EXCEPT !.failed = TRUE], 500, "Server error")
          /\ UNCHANGED posts
       \/ /\ q.id \notin PostIds
          /\ posts' = With(posts, q.id, [title |-> q.body.title, content |-> q.body.content,
                                         author_id |-> q.userId, created_at |-> now])
          /\ Answer(r, q, 200, "Post updated")
       \/ /\ q.id \in PostIds
          /\ posts' = [posts EXCEPT ![q.id] = UpdateData(@, q.body)]
          /\ Answer(r, q, 200, "Post updated")
    /\ UNCHANGED <<users, comments, postSeq, commentSeq, now, issued>>

UpdatePostUpdate(r) ==
    /\ reqs[r].op = "updatePost" /\ reqs[r].pc = "update"
    /\ LET q == [reqs[r] EXCEPT !.calls = @ + 1] IN
       \/ /\ Answer(r, [q EXCEPT !.failed = TRUE], 500, "Server error")
          /\ UNCHANGED posts
       \/ \* the row is gone: update throws "record not found"
          /\ q.id \notin PostIds
          /\ Answer(r, q, 500, "Server error")
          /\ UNCHANGED posts
       \/ /\ q.id \in PostIds
          /\ posts' = [posts EXCEPT ![q.id] = UpdateData(@, q.body)]
          /\ Answer(r, [q EXCEPT !.data =
                                 << PostUpdated(q.id, UpdateData(posts[q.id], q.body)) >>],
                    200, "Post updated")
    /\ UNCHANGED <<users, comments, postSeq, commentSeq, now, issued>>

\* -------------------------------------------------- DELETE /posts/:postId
DeletePost(r, toks, ids) ==
    /\ Free(r)
    /\ \E tok \in toks, id \in ids :
        LET q == NewReq("deletePost", tok, id, NoBody) IN
        IF middleware(tok, now) = "throw" THEN SyncThrow(r, q)
        ELSE Suspend(r, Authed(q), "find")
    /\ UNCHANGED <<store, now, issued>>

DeletePostFind(r) ==
    /\ reqs[r].op = "deletePost" /\ reqs[r].pc = "find"
    /\ LET q == [reqs[r] EXCEPT !.calls = @ + 1] IN
       \/ Answer(r, [q EXCEPT !.failed = TRUE], 500, "Server error")
       \/ /\ q.id \notin PostIds
          /\ Answer(r, q, 404, "Post not found")
       \/ /\ q.id \in PostIds
          /\ IF ~IsPostAuthor(q)
             THEN Answer(r, q, 403, "Invalid author")
             ELSE Suspend(r, q, "delete")
    /\ UNCHANGED <<store, now, issued>>

DeletePostDelete(r) ==
    /\ reqs[r].op = "deletePost" /\ reqs[r].pc = "delete"
    /\ LET q == [reqs[r] EXCEPT !.calls = @ + 1] IN
       \/ /\ Answer(r, [q EXCEPT !.failed = TRUE], 500, "Server error")
          /\ UNCHANGED posts
       \/ \* the row is gone, or Comment_post_id_fkey (ON DELETE RESTRICT) refuses
          /\ (q.id \notin PostIds \/ HasComments(q.id))
          /\ Answer(r, q, 500, "Server error")
          /\ UNCHANGED posts
       \/ /\ q.id \in PostIds
          /\ ~HasComments(q.id)
          /\ posts' = Without(posts, q.id)
          /\ Answer(r, q, 204, "")
    /\ UNCHANGED <<users, comments, postSeq, commentSeq, now, issued>>

\* --------------------------------------------------------- POST comments
CreateComment(r, toks, bodies) ==
    /\ Free(r)
    /\ \E tok \in toks, b \in bodies :
        LET q == NewReq("createComment", tok, 0, b) IN
        IF middleware(tok, now) = "throw" THEN SyncThrow(r, q)
        ELSE IF ~CommentSchema(b) THEN Answer(r, Authed(q), 400, "Invalid input")
        ELSE IF b.post_id = 0 THEN Answer(r, Authed(q), 400, "postId is required")
        ELSE Suspend(r, Authed(q), "create")
    /\ UNCHANGED <<store, now, issued>>

CreateCommentStore(r, cap) ==
    /\ reqs[r].op = "createComment" /\ reqs[r].pc = "create"
    /\ LET q == [reqs[r] EXCEPT !.calls = @ + 1] IN
       \/ /\ Answer(r, [q EXCEPT !.failed = TRUE], 500, "Unable to create comment")
          /\ UNCHANGED <<comments, commentSeq>>
       \/ \* Comment_post_id_fkey / Comment_author_id_fkey refuse the row
          /\ (q.body.post_id \notin PostIds \/ q.userId \notin UserIds)
          /\ Answer(r, q, 500, "Unable to create comment")
          /\ UNCHANGED <<comments, commentSeq>>
       \/ /\ q.body.post_id \in PostIds
          /\ q.userId \in UserIds
          /\ commentSeq < cap
          /\ commentSeq' = commentSeq + 1
          /\ comments' = With(comments, commentSeq + 1,
                              [content |-> q.body.content, post_id |-> q.body.post_id,
                               author_id |-> q.userId, created_at |-> now])
          /\ Answer(r, [q EXCEPT !.id = commentSeq + 1], 201, "Comment created")
    /\ UNCHANGED <<users, posts, postSeq, now, issued>>

\* ---------------------------------------------------------- GET comments
ListComments(r, toks) ==
    /\ Free(r)
    /\ \E tok \in toks :
        LET q == NewReq("listComments", tok, 0, NoBody) IN
        IF middleware(tok, now) = "throw" THEN SyncThrow(r, q)
        ELSE Suspend(r, Authed(q), "find")
    /\ UNCHANGED <<store, now, issued>>

\* findMany resolves to an array, which is never falsy: the 404 branch
\* (which would go on to answer a second time) is never taken.
ListCommentsStore(r) ==
    /\ reqs[r].op = "listComments" /\ reqs[r].pc = "find"
    /\ LET q == [reqs[r] EXCEPT !.calls = @ + 1] IN
       \/ Answer(r, [q EXCEPT !.failed = TRUE], 500, "Server error")
       \/ \E out \in OrderByCreatedDesc({ CommentSelected(c) : c \in CommentIds }) :
             Answer(r, [q EXCEPT !.data = out], 200, "Get all comments")
    /\ UNCHANGED <<store, now, issued>>

\* ----------------------------------------------------- GET post/:postId
ListCommentsByPost(r, toks, ids) ==
    /\ Free(r)
    /\ \E tok \in toks, id \in ids :
        LET q == NewReq("listCommentsByPost", tok, id, NoBody) IN
        IF middleware(tok, now) = "throw" THEN SyncThrow(r, q)
        ELSE Suspend(r, Authed(q), "find")
    /\ UNCHANGED <<store, now, issued>>

ListCommentsByPostStore(r) ==
    /\ reqs[r].op = "listCommentsByPost" /\ reqs[r].pc = "find"
    /\ LET q == [reqs[r] EXCEPT !.calls = @ + 1] IN
       \/ Answer(r, [q EXCEPT !.failed = TRUE], 500, "Unable to fetch comments")
       \/ \E out \in OrderByCreatedDesc(CommentsOf(q.id)) :
             Answer(r, [q EXCEPT !.data = out], 200, "Got comments")
    /\ UNCHANGED <<store, now, issued>>

\* ------------------------------------------------ PUT comments/:commentId
UpdateComment(r, toks, ids, bodies) ==
    /\ Free(r)
    /\ \E tok \in toks, id \in ids, b \in bodies :
        LET q == NewReq("updateComment", tok, id, b) IN
        IF middleware(tok, now) = "throw" THEN SyncThrow(r, q)
        ELSE IF ~CommentSchema(b) THEN Answer(r, Authed(q), 400, "Invalid input")
        ELSE Suspend(r, Authed(q), "find")
    /\ UNCHANGED <<store, now, issued>>

\* the ownership check left out
IsCommentAuthorSkipped(q) == TRUE
\* the ownership check of PUT and DELETE comments/:commentId
IsCommentAuthor(q) == comments[q.id].author_id = q.userId

UpdateCommentFind(r) ==
    /\ reqs[r].op = "updateComment" /\ reqs[r].pc = "find"
    /\ LET q == [reqs[r] EXCEPT !.calls = @ + 1] IN
       \/ Answer(r, [q EXCEPT !.failed = TRUE], 500, "Unable to update comment")
       \/ /\ q.id \notin CommentIds
          /\ Answer(r, q, 404, "Comment not found")
       \/ /\ q.id \in CommentIds
          /\ IF ~IsCommentAuthor(q)
             THEN Answer(r, q, 403, "Invalid author")
             ELSE Suspend(r, q, "update")
    /\ UNCHANGED <<store, now, issued>>

UpdateCommentUpdate(r) ==
    /\ reqs[r].op = "updateComment" /\ reqs[r].pc = "update"
    /\ LET q == [reqs[r] EXCEPT !.calls = @ + 1] IN
       \/ /\ Answer(r, [q EXCEPT !.failed = TRUE], 500, "Unable to update comment")
          /\ UNCHANGED comments
       \/ /\ q.id \notin CommentIds
          /\ Answer(r, q, 500, "Unable to update comment")
          /\ UNCHANGED comments
       \/ /\ q.id \in CommentIds
          /\ comments' = [comments EXCEPT ![q.id].content = q.body.content]
          /\ Answer(r, [q EXCEPT !.data =
                                 << CommentUpdated(q.id, [comments[q.id] EXCEPT
                                                            !.content = q.body.content]) >>],
                    200, "Comment updated")
    /\ UNCHANGED <<users, posts, postSeq, commentSeq, now, issued>>

\* --------------------------------------------- DELETE comments/:commentId
DeleteComment(r, toks, ids) ==
    /\ Free(r)
    /\ \E tok \in toks, id \in ids :
        LET q == NewReq("deleteComment", tok, id, NoBody) IN
        IF middleware(tok, now) = "throw" THEN SyncThrow(r, q)
        ELSE Suspend(r, Authed(q), "find")
    /\ UNCHANGED <<store, now, issued>>

DeleteCommentFind(r) ==
    /\ reqs[r].op = "deleteComment" /\ reqs[r].pc = "find"
    /\ LET q == [reqs[r] EXCEPT !.calls = @ + 1] IN
       \/ Answer(r, [q EXCEPT !.failed = TRUE], 500, "Unable to delete comment")
       \/ /\ q.id \notin CommentIds
          /\ Answer(r, q, 404, "Comment not found")
       \/ /\ q.id \in CommentIds
          /\ IF ~IsCommentAuthor(q)
             THEN Answer(r, q, 403, "Invalid author")
             ELSE Suspend(r, q, "delete")
    /\ UNCHANGED <<store, now, issued>>

DeleteCommentDelete(r) ==
    /\ reqs[r].op = "deleteComment" /\ reqs[r].pc = "delete"
    /\ LET q == [reqs[r] EXCEPT !.calls = @ + 1] IN
       \/ /\ Answer(r, [q EXCEPT !.failed = TRUE], 500, "Unable to delete comment")
          /\ UNCHANGED comments
       \/ /\ q.id \notin CommentIds
          /\ Answer(r, q, 500, "Unable to delete comment")
          /\ UNCHANGED comments
       \/ /\ q.id \in CommentIds
          /\ comments' = Without(comments, q.id)
          /\ Answer(r, q, 204, "")
    /\ UNCHANGED <<users, posts, postSeq, commentSeq, now, issued>>

Tick ==
    /\ now < MaxClock
    /\ now' = now + TickStep
    /\ UNCHANGED <<store, issued, reqs>>

\* ------------------------------------------------------------ store at start
\* The tables outlive the process: the server may start on a store that
\* earlier registrations have filled.  These are the rows that POST /register
\* writes for the first two payloads of RegisterBodies, and the tokens that
\* POST /login hands out for them at time 0.
SeedUsers ==
    << [username |-> "alice", email |-> "a@x", password |-> Hash("password1", "s1")],
       [username |-> "bob", email |-> "b@x", password |-> Hash("password2", "s1")] >>
SeedTokens == { Sign(1, JWT_SECRET, 0), Sign(2, JWT_SECRET, 0) }
InitSeeded ==
    /\ users = SeedUsers
    /\ posts = << >>
    /\ comments = << >>
    /\ postSeq = 0
    /\ commentSeq = 0
    /\ now = 0
    /\ issued = {}
    /\ reqs = [r \in Slots |-> Idle]
InitLoggedIn ==
    /\ users = SeedUsers
    /\ posts = << >>
    /\ comments = << >>
    /\ postSeq = 0
    /\ commentSeq = 0
    /\ now = 0
    /\ issued = SeedTokens
    /\ reqs = [r \in Slots |-> Idle]

\* ------------------------------------------------------------ specifications
\* Accounts: registration and login on an empty store, requests interleaved.
NextAccounts ==
    \/ \E r \in Slots : Register(r, RegisterBodies)
    \/ \E r \in Slots : RegisterCreate(r)
    \/ \E r \in Slots : Login(r, LoginBodies)
    \/ \E r \in Slots : LoginLookup(r)
Spec == Init /\ [][NextAccounts]_vars

\* Guard: every protected route under every kind of token, as time passes.
\* The guard runs within the step that receives the request, so one task
\* shows all of its behaviour.
GuardSlots == {1}
GuardLogins == { RegBody("alice", Undefined, "password1") }
GuardPosts == { PostBody("Hello", "First post") }
GuardEdits == { PostBody("Edited", Undefined) }
GuardComments == { CommentBody("Nice post", 1) }
GuardCommentEdits == { CommentBody("Edited comment", 0) }
NextGuard ==
    \/ \E r \in GuardSlots : Login(r, GuardLogins)
    \/ \E r \in GuardSlots : LoginLookup(r)
    \/ \E r \in GuardSlots : CreatePost(r, Tokens, GuardPosts)
    \/ \E r \in GuardSlots : CreatePostStore(r, MaxPosts)
    \/ \E r \in GuardSlots : ListPosts(r, Tokens)
    \/ \E r \in GuardSlots : ListPostsStore(r)
    \/ \E r \in GuardSlots : GetPost(r, Tokens, PostIdParams)
    \/ \E r \in GuardSlots : GetPostStore(r)
    \/ \E r \in GuardSlots : UpdatePost(r, Tokens, PostIdParams, GuardEdits)
    \/ \E r \in GuardSlots : UpdatePostFind(r)
    \/ \E r \in GuardSlots : UpdatePostUpdate(r)
    \/ \E r \in GuardSlots : DeletePost(r, Tokens, PostIdParams)
    \/ \E r \in GuardSlots : DeletePostFind(r)
    \/ \E r \in GuardSlots : DeletePostDelete(r)
    \/ \E r \in GuardSlots : CreateComment(r, Tokens, GuardComments)
    \/ \E r \in GuardSlots : CreateCommentStore(r, MaxComments)
    \/ \E r \in GuardSlots : ListComments(r, Tokens)
    \/ \E r \in GuardSlots : ListCommentsStore(r)
    \/ \E r \in GuardSlots : ListCommentsByPost(r, Tokens, PostIdParams)
    \/ \E r \in GuardSlots : ListCommentsByPostStore(r)
    \/ \E r \in GuardSlots : UpdateComment(r, Tokens, CommentIdParams, GuardCommentEdits)
    \/ \E r \in GuardSlots : UpdateCommentFind(r)
    \/ \E r \in GuardSlots : UpdateCommentUpdate(r)
    \/ \E r \in GuardSlots : DeleteComment(r, Tokens, CommentIdParams)
    \/ \E r \in GuardSlots : DeleteCommentFind(r)
    \/ \E r \in GuardSlots : DeleteCommentDelete(r)
    \/ Tick
SpecGuard == InitSeeded /\ [][NextGuard]_vars

\* Blog: the writes to posts and comments by logged-in users, interleaved.
NextBlog ==
    \/ \E r \in Slots : CreatePost(r, issued, CreatePostBodies)
    \/ \E r \in Slots : CreatePostStore(r, MaxPosts)
    \/ \E r \in Slots : UpdatePost(r, issued, PostIdParams, UpdatePostBodies)
    \/ \E r \in Slots : UpdatePostFind(r)
    \/ \E r \in Slots : UpdatePostUpdate(r)
    \/ \E r \in Slots : DeletePost(r, issued, PostIdParams)
    \/ \E r \in Slots : DeletePostFind(r)
    \/ \E r \in Slots : DeletePostDelete(r)
    \/ \E r \in Slots : CreateComment(r, issued, CreateCommentBodies)
    \/ \E r \in Slots : CreateCommentStore(r, MaxComments)
    \/ \E r \in Slots : UpdateComment(r, issued, CommentIdParams, UpdateCommentBodies)
    \/ \E r \in Slots : UpdateCommentFind(r)
    \/ \E r \in Slots : UpdateCommentUpdate(r)
    \/ \E r \in Slots : DeleteComment(r, issued, CommentIdParams)
    \/ \E r \in Slots : DeleteCommentFind(r)
    \/ \E r \in Slots : DeleteCommentDelete(r)
SpecBlog == InitLoggedIn /\ [][NextBlog]_vars

\* Read: two users that log in, write and read back, one request at a time.
ReadSlots == {1}
ReadLogins == GuardLogins \cup { RegBody(Undefined, "b@x", "password2") }
NextRead ==
    \/ \E r \in ReadSlots : Login(r, ReadLogins)
    \/ \E r \in ReadSlots : LoginLookup(r)
    \/ \E r \in ReadSlots : CreatePost(r, issued, GuardPosts)
    \/ \E r \in ReadSlots : CreatePostStore(r, MaxPosts)
    \/ \E r \in ReadSlots : ListPosts(r, issued)
    \/ \E r \in ReadSlots : ListPostsStore(r)
    \/ \E r \in ReadSlots : GetPost(r, issued, PostIdParams)
    \/ \E r \in ReadSlots : GetPostStore(r)
    \/ \E r \in ReadSlots : UpdatePost(r, issued, PostIdParams, GuardEdits)
    \/ \E r \in ReadSlots : UpdatePostFind(r)
    \/ \E r \in ReadSlots : UpdatePostUpdate(r)
    \/ \E r \in ReadSlots : DeletePost(r, issued, PostIdParams)
    \/ \E r \in ReadSlots : DeletePostFind(r)
    \/ \E r \in ReadSlots : DeletePostDelete(r)
    \/ \E r \in ReadSlots : CreateComment(r, issued, GuardComments)
    \/ \E r \in ReadSlots : CreateCommentStore(r, MaxComments)
    \/ \E r \in ReadSlots : ListComments(r, issued)
    \/ \E r \in ReadSlots : ListCommentsStore(r)
    \/ \E r \in ReadSlots : ListCommentsByPost(r, issued, PostIdParams)
    \/ \E r \in ReadSlots : ListCommentsByPostStore(r)
    \/ \E r \in ReadSlots : UpdateComment(r, issued, CommentIdParams, GuardCommentEdits)
    \/ \E r \in ReadSlots : UpdateCommentFind(r)
    \/ \E r \in ReadSlots : UpdateCommentUpdate(r)
    \/ \E r \in ReadSlots : DeleteComment(r, issued, CommentIdParams)
    \/ \E r \in ReadSlots : DeleteCommentFind(r)
    \/ \E r \in ReadSlots : DeleteCommentDelete(r)
    \/ Tick
SpecRead == InitSeeded /\ [][NextRead]_vars

\* Privacy: users register and log in on an empty store, then write and
\* read posts and comments, one request at a time.
PrivacySlots == {1}
PrivacyRegisters == { RegBody("alice", "a@x", "password1"), RegBody("bob", "b@x", "password2") }
NextPrivacy ==
    \/ \E r \in PrivacySlots : Register(r, PrivacyRegisters)
    \/ \E r \in PrivacySlots : RegisterCreate(r)
    \/ \E r \in PrivacySlots : Login(r, ReadLogins)
    \/ \E r \in PrivacySlots : LoginLookup(r)
    \/ \E r \in PrivacySlots : CreatePost(r, issued, GuardPosts)
    \/ \E r \in PrivacySlots : CreatePostStore(r, MaxPosts)
    \/ \E r \in PrivacySlots : ListPosts(r, issued)
    \/ \E r \in PrivacySlots : ListPostsStore(r)
    \/ \E r \in PrivacySlots : GetPost(r, issued, PostIdParams)
    \/ \E r \in PrivacySlots : GetPostStore(r)
    \/ \E r \in PrivacySlots : UpdatePost(r, issued, PostIdParams, GuardEdits)
    \/ \E r \in PrivacySlots : UpdatePostFind(r)
    \/ \E r \in PrivacySlots : UpdatePostUpdate(r)
    \/ \E r \in PrivacySlots : CreateComment(r, issued, GuardComments)
    \/ \E r \in PrivacySlots : CreateCommentStore(r, MaxComments)
    \/ \E r \in PrivacySlots : ListComments(r, issued)
    \/ \E r \in PrivacySlots : ListCommentsStore(r)
    \/ \E r \in PrivacySlots : ListCommentsByPost(r, issued, PostIdParams)
    \/ \E r \in PrivacySlots : ListCommentsByPostStore(r)
    \/ \E r \in PrivacySlots : UpdateComment(r, issued, CommentIdParams, GuardCommentEdits)
    \/ \E r \in PrivacySlots : UpdateCommentFind(r)
    \/ \E r \in PrivacySlots : UpdateCommentUpdate(r)
SpecPrivacy == Init /\ [][NextPrivacy]_vars

\* Order: every kind of token and every kind of payload on the writes, one
\* request at a time, by the two logged-in users.
OrderSlots == {1}
Ten == "0123456789"
Hundred == Ten \o Ten \o Ten \o Ten \o Ten \o Ten \o Ten \o Ten \o Ten \o Ten
LongComment == Hundred \o Hundred \o Hundred \o Hundred \o Hundred \o "x"
OrderPosts == CreatePostBodies \cup { PostBody(LongName, "First post"), PostBody("Hello", "no") }
OrderEdits == UpdatePostBodies \cup { PostBody(LongName, Undefined) }
OrderComments == CreateCommentBodies \cup { CommentBody(LongComment, 1) }
OrderCommentEdits == UpdateCommentBodies \cup { CommentBody(LongComment, 0) }
NextOrder ==
    \/ \E r \in OrderSlots : CreatePost(r, Tokens, OrderPosts)
    \/ \E r \in OrderSlots : CreatePostStore(r, MaxPosts)
    \/ \E r \in OrderSlots : UpdatePost(r, Tokens, PostIdParams, OrderEdits)
    \/ \E r \in OrderSlots : UpdatePostFind(r)
    \/ \E r \in OrderSlots : UpdatePostUpdate(r)
    \/ \E r \in OrderSlots : DeletePost(r, Tokens, PostIdParams)
    \/ \E r \in OrderSlots : DeletePostFind(r)
    \/ \E r \in OrderSlots : DeletePostDelete(r)
    \/ \E r \in OrderSlots : CreateComment(r, Tokens, OrderComments)
    \/ \E r \in OrderSlots : CreateCommentStore(r, MaxComments)
    \/ \E r \in OrderSlots : UpdateComment(r, Tokens, CommentIdParams, OrderCommentEdits)
    \/ \E r \in OrderSlots : UpdateCommentFind(r)
    \/ \E r \in OrderSlots : UpdateCommentUpdate(r)
    \/ \E r \in OrderSlots : DeleteComment(r, Tokens, CommentIdParams)
    \/ \E r \in OrderSlots : DeleteCommentFind(r)
    \/ \E r \in OrderSlots : DeleteCommentDelete(r)
SpecOrder == InitLoggedIn /\ [][NextOrder]_vars

\* ------------------------------------------------------------------ routing
\* A path is the sequence of its segments: /comments/post/1 is
\* <<"comments", "post", "1">>.  A router mounted with app.use sees the path
\* with the mount point taken off.
ParamId(segment) == IF segment = "1" THEN 1 ELSE 0
\* routes/posts.ts: "/", "/:postId"
PostsRouter(m, rest) ==
    IF Len(rest) = 0
    THEN IF m = "POST" THEN "createPost" ELSE IF m = "GET" THEN "listPosts" ELSE "none"
    ELSE IF Len(rest) = 1
    THEN IF m = "GET" THEN "getPost"
         ELSE IF m = "PUT" THEN "updatePost"
         ELSE IF m = "DELETE" THEN "deletePost" ELSE "none"
    ELSE "none"
\* routes/comments.ts: "/comments", "/post/:postId", "/comments/:commentId"
CommentsRouter(m, rest) ==
    IF Len(rest) = 1 /\ rest[1] = "comments"
    THEN IF m = "POST" THEN "createComment" ELSE IF m = "GET" THEN "listComments" ELSE "none"
    ELSE IF Len(rest) = 2 /\ rest[1] = "post"
    THEN IF m = "GET" THEN "listCommentsByPost" ELSE "none"
    ELSE IF Len(rest) = 2 /\ rest[1] = "comments"
    THEN IF m = "PUT" THEN "updateComment"
         ELSE IF m = "DELETE" THEN "deleteComment" ELSE "none"
    ELSE "none"
\* the app: /register, /login, and the two routers at their mount points
Route(m, path) ==
    IF Len(path) = 0 THEN "none"
    ELSE IF Len(path) = 1 /\ path[1] = "register"
    THEN IF m = "POST" THEN "register" ELSE "none"
    ELSE IF Len(path) = 1 /\ path[1] = "login"
    THEN IF m = "POST" THEN "login" ELSE "none"
    ELSE IF path[1] = "posts" THEN PostsRouter(m, Tail(path))
    ELSE IF path[1] = "comments" THEN CommentsRouter(m, Tail(path))
    ELSE "none"

\* A request arrives as a method and a path.  When no route matches, no
\* guard and no handler runs and the framework answers 404 with an HTML
\* page; otherwise the matching route's guard and handler run.
Serve(r, toks, methods, paths) ==
    /\ Free(r)
    /\ \E tok \in toks, m \in methods, path \in paths :
        LET op == Route(m, path)
            id == IF Len(path) > 1 THEN ParamId(path[Len(path)]) ELSE 0
        IN
        CASE op = "none" ->
               /\ Answer(r, [NewReq("unrouted", tok, 0, NoBody) EXCEPT
                               !.method = m, !.path = path],
                         404, "<html>Cannot</html>")
               /\ UNCHANGED <<store, now, issued>>
          [] op = "register" -> Register(r, RegisterBodies)
          [] op = "login" -> Login(r, LoginBodies)
          [] op = "createPost" -> CreatePost(r, {tok}, GuardPosts)
          [] op = "listPosts" -> ListPosts(r, {tok})
          [] op = "getPost" -> GetPost(r, {tok}, {id})
          [] op = "updatePost" -> UpdatePost(r, {tok}, {id}, GuardEdits)
          [] op = "deletePost" -> DeletePost(r, {tok}, {id})
          [] op = "createComment" -> CreateComment(r, {tok}, GuardComments)
          [] op = "listComments" -> ListComments(r, {tok})
          [] op = "listCommentsByPost" -> ListCommentsByPost(r, {tok}, {id})
          [] op = "updateComment" -> UpdateComment(r, {tok}, {id}, GuardCommentEdits)
          [] op = "deleteComment" -> DeleteComment(r, {tok}, {id})

\* Route: requests by method and path from logged-in users, one at a time.
RouteSlots == {1}
RouteMethods == {"GET", "POST", "PUT", "DELETE"}
RoutePaths ==
    { <<"posts">>, <<"comments">>, <<"comments", "1">>, <<"comments", "post", "1">>,
      <<"comments", "comments">>, <<"comments", "comments", "1">> }
NextRoute ==
    \/ \E r \in RouteSlots : Serve(r, issued, RouteMethods, RoutePaths)
    \/ \E r \in RouteSlots : CreatePostStore(r, MaxPosts)
    \/ \E r \in RouteSlots : ListPostsStore(r)
    \/ \E r \in RouteSlots : CreateCommentStore(r, MaxComments)
    \/ \E r \in RouteSlots : ListCommentsStore(r)
    \/ \E r \in RouteSlots : ListCommentsByPostStore(r)
    \/ \E r \in RouteSlots : UpdateCommentFind(r)
    \/ \E r \in RouteSlots : UpdateCommentUpdate(r)
    \/ \E r \in RouteSlots : DeleteCommentFind(r)
    \/ \E r \in RouteSlots : DeleteCommentDelete(r)
SpecRoute == InitLoggedIn /\ [][NextRoute]_vars

\* Feed: one client that logs in, posts and comments as time passes, deletes
\* and reads the lists: enough rows for the order of a list to show.
FeedSlots == {1}
FeedPostIds == 1..MaxListed
FeedCommentIds == 1..MaxListed
NextFeed ==
    \/ \E r \in FeedSlots : Login(r, GuardLogins)
    \/ \E r \in FeedSlots : LoginLookup(r)
    \/ \E r \in FeedSlots : CreatePost(r, issued, GuardPosts)
    \/ \E r \in FeedSlots : CreatePostStore(r, MaxListed)
    \/ \E r \in FeedSlots : ListPosts(r, issued)
    \/ \E r \in FeedSlots : ListPostsStore(r)
    \/ \E r \in FeedSlots : DeletePost(r, issued, FeedPostIds)
    \/ \E r \in FeedSlots : DeletePostFind(r)
    \/ \E r \in FeedSlots : DeletePostDelete(r)
    \/ \E r \in FeedSlots : CreateComment(r, issued, GuardComments)
    \/ \E r \in FeedSlots : CreateCommentStore(r, MaxListed)
    \/ \E r \in FeedSlots : ListCommentsByPost(r, issued, {1})
    \/ \E r \in FeedSlots : ListCommentsByPostStore(r)
    \/ \E r \in FeedSlots : DeleteComment(r, issued, FeedCommentIds)
    \/ \E r \in FeedSlots : DeleteCommentFind(r)
    \/ \E r \in FeedSlots : DeleteCommentDelete(r)
    \/ Tick
SpecFeed == InitSeeded /\ [][NextFeed]_vars

\* ================================================================== claims
Protected(op) == op \notin {"none", "register", "login"}
PostWrite(op) == op \in {"updatePost", "deletePost"}
CommentWrite(op) == op \in {"updateComment", "deleteComment"}
Moved(r) == reqs'[r] # reqs[r]
Done(r) == reqs[r].pc = "done"
NotAuthorized == Resp(404, "Not Authorized")
GuardRefuses(q) == ~Verify(q.token, JWT_SECRET, q.at)

\* the caller of request r is not the author of the existing row r targets
StrangerAtCheck(r) ==
    /\ reqs[r].pc = "find"
    /\ \/ PostWrite(reqs[r].op) /\ reqs[r].id \in PostIds
          /\ posts[reqs[r].id].author_id # reqs[r].userId
       \/ CommentWrite(reqs[r].op) /\ reqs[r].id \in CommentIds
          /\ comments[reqs[r].id].author_id # reqs[r].userId
AuthorAtCheck(r) ==
    /\ reqs[r].pc = "find"
    /\ \/ PostWrite(reqs[r].op) /\ reqs[r].id \in PostIds
          /\ posts[reqs[r].id].author_id = reqs[r].userId
       \/ CommentWrite(reqs[r].op) /\ reqs[r].id \in CommentIds
          /\ comments[reqs[r].id].author_id = reqs[r].userId

\* C1: when the ownership lookup of an Update or Delete on a post or comment
\* finds a row whose author_id is not the caller's id, the request is
\* answered 403 and no row of the store changes, so the row still exists
\* with the title/content/author_id it had (the lookup itself not failing).
C1_StrangerForbidden ==
    [][\A r \in Slots :
         (StrangerAtCheck(r) /\ Moved(r) /\ ~reqs'[r].failed)
           => /\ reqs'[r].pc = "done"
              /\ reqs'[r].resp.status = 403
              /\ posts' = posts
              /\ comments' = comments]_vars
C1_Witness ==
    \E r \in Slots :
        /\ Done(r) /\ reqs[r].resp.status = 403 /\ PostWrite(reqs[r].op)
        /\ reqs[r].id \in PostIds
        /\ posts[reqs[r].id].author_id # reqs[r].userId
        /\ posts[reqs[r].id].title = "Hello"

\* C2: under any interleaving, every step that changes or removes a post or
\* a comment is the write of a request whose caller is that row's author,
\* and a caller who is the author passes the ownership check.
C2_OnlyAuthorWrites ==
    [][/\ \A p \in PostIds :
            (p \notin DOMAIN posts' \/ posts'[p] # posts[p])
              => \E r \in Slots :
                    /\ Moved(r) /\ PostWrite(reqs[r].op) /\ reqs[r].id = p
                    /\ reqs[r].userId = posts[p].author_id
       /\ \A c \in CommentIds :
            (c \notin DOMAIN comments' \/ comments'[c] # comments[c])
              => \E r \in Slots :
                    /\ Moved(r) /\ CommentWrite(reqs[r].op) /\ reqs[r].id = c
                    /\ reqs[r].userId = comments[c].author_id
       /\ \A r \in Slots :
            (AuthorAtCheck(r) /\ Moved(r) /\ ~reqs'[r].failed)
              => reqs'[r].pc \in {"update", "delete"}]_vars
C2_Witness ==
    \E r, o \in Slots :
        /\ Done(r) /\ reqs[r].op = "updateComment" /\ reqs[r].resp.status = 200
        /\ reqs[r].id \in CommentIds
        /\ comments[reqs[r].id].author_id = reqs[r].userId
        /\ comments[reqs[r].id].content = "Edited comment"
        /\ Done(o) /\ reqs[o].op = "deleteComment" /\ reqs[o].resp.status = 403
        /\ reqs[o].id = reqs[r].id

\* C3: on every protected route a request whose token is missing, malformed,
\* expired or wrongly signed is answered 404 {message: "Not Authorized"}.
C3_NotAuthorized404 ==
    \A r \in Slots :
        (Done(r) /\ Protected(reqs[r].op) /\ GuardRefuses(reqs[r]))
          => reqs[r].resp = NotAuthorized

\* C4: a request on a protected route whose token fails verification never
\* reaches its handler: it is over at once, no identity is bound to it and
\* no store call is made for it.
C4_NoStoreCallWhenRefused ==
    \A r \in Slots :
        (Protected(reqs[r].op) /\ GuardRefuses(reqs[r]))
          => /\ reqs[r].pc = "done"
             /\ reqs[r].calls = 0
             /\ reqs[r].userId = NoUser
C4_Witness ==
    \E r \in Slots :
        /\ Protected(reqs[r].op) /\ Done(r)
        /\ reqs[r].token \in issued
        /\ reqs[r].at >= reqs[r].token.exp
        /\ reqs[r].calls = 0

\* C5: a token issued by Login is accepted, binding the request to its user,
\* while less than 1 hour has passed since issuance, and once 1 hour has
\* passed the request is answered with the authorization failure.
C5_TokenLifetime ==
    \A r \in Slots :
        (Protected(reqs[r].op) /\ reqs[r].token \in issued)
          => /\ reqs[r].token.exp = reqs[r].token.iat + 3600
             /\ (reqs[r].at < reqs[r].token.iat + 3600
                   => reqs[r].userId = reqs[r].token.userId /\ ~reqs[r].escaped)
             /\ (reqs[r].at >= reqs[r].token.iat + 3600
                   => reqs[r].resp = NotAuthorized /\ reqs[r].calls = 0)

\* the users a login payload names: by username when one is supplied,
\* otherwise by email
Named(b) ==
    IF Truthy(b.username) THEN {u \in UserIds : users[u].username = b.username}
    ELSE IF Truthy(b.email) THEN {u \in UserIds : users[u].email = b.email}
    ELSE {}
\* C6: a valid login payload that names a stored user gets 200 and a token
\* that verifies and whose subject is that user's id when the password
\* matches the stored hash, 401 and no token when it does not; a payload
\* that names no stored user gets 404 (the lookup itself not failing).
C6_LoginOutcome ==
    [][\A r \in Slots :
         (reqs'[r].op = "login" /\ Moved(r) /\ reqs'[r].pc = "done"
            /\ SigninSchem(reqs'[r].body) /\ ~reqs'[r].failed)
           => LET q == reqs'[r] IN
              /\ Named(q.body) = {}
                   => q.resp.status = 404 /\ q.token_out = NoToken
              /\ \A u \in Named(q.body) :
                   IF q.body.password = users[u].password.digest
                   THEN /\ q.resp.status = 200
                        /\ q.token_out.userId = u
                        /\ Verify(q.token_out, JWT_SECRET, now)
                   ELSE q.resp.status = 401 /\ q.token_out = NoToken]_vars
C6_Witness ==
    \E r, o \in Slots :
        /\ Done(r) /\ reqs[r].op = "login" /\ reqs[r].resp.status = 200
        /\ reqs[r].body.username = Undefined
        /\ reqs[r].token_out.userId \in UserIds
        /\ Done(o) /\ reqs[o].op = "login" /\ reqs[o].resp.status = 401
        /\ Named(reqs[o].body) # {}

\* C7: no two stored users share a username or an email, whatever the
\* interleaving of Register requests; a Register whose username or email is
\* already stored is answered 409 and stores no user.
C7_UniqueUsers ==
    /\ [](\A u, v \in UserIds :
            u # v => /\ users[u].username # users[v].username
                     /\ users[u].email # users[v].email)
    /\ [][\A r \in Slots :
            (reqs[r].op = "register" /\ reqs[r].pc = "create" /\ Moved(r)
               /\ \E u \in UserIds : \/ users[u].username = reqs[r].body.username
                                     \/ users[u].email = reqs[r].body.email)
              => reqs'[r].resp.status = 409 /\ users' = users]_vars
C7_Witness ==
    \E r \in Slots :
        /\ Done(r) /\ reqs[r].op = "register" /\ reqs[r].resp.status = 409
        /\ ~reqs[r].failed
        /\ Len(users) = 1
        /\ users[1].email = reqs[r].body.email
        /\ users[1].username # reqs[r].body.username

\* C8: a Register payload whose username is shorter than 3 or longer than 20
\* characters is answered 422 at once, without any store call, and no stored
\* user ever has such a username.
C8_UsernameLength ==
    /\ \A r \in Slots :
         (reqs[r].op = "register"
            /\ (Len(reqs[r].body.username) < 3 \/ Len(reqs[r].body.username) > 20))
           => /\ reqs[r].pc = "done"
              /\ reqs[r].resp.status = 422
              /\ reqs[r].calls = 0
    /\ \A u \in UserIds : Len(users[u].username) \in 3..20
C8_Witness ==
    \E r \in Slots :
        /\ Done(r) /\ reqs[r].op = "register" /\ Len(reqs[r].body.username) = 21
        /\ reqs[r].resp.status = 422
        /\ reqs[r].calls = 0
        /\ Len(users) = 1

\* C9: in every handler, Register and Login included, a store or credential
\* call that fails for an unexpected reason ends in a 500 response.
C9_FailureIs500 ==
    \A r \in Slots :
        (reqs[r].failed /\ reqs[r].pc \in {"done", "hung"})
          => reqs[r].resp.status = 500

\* C10: every request gets exactly one response, also when a call made for
\* it fails: the failure is caught by the guard or handler that made the
\* call and the request is never left without an answer.
C10_OneResponseNoEscape ==
    \A r \in Slots :
        /\ ~reqs[r].escaped
        /\ reqs[r].pc # "hung"
        /\ reqs[r].pc = "done" => reqs[r].sent = 1

\* C11: a Delete Post by the post's author on a post that exists, whether or
\* not the post has comments, is answered 204 and removes the post (the
\* store call itself not failing).
C11_AuthorDeleteSucceeds ==
    [][\A r \in Slots :
         (/\ reqs[r].op = "deletePost" /\ reqs[r].pc = "delete"
          /\ Moved(r) /\ ~reqs'[r].failed
          /\ reqs[r].id \in PostIds
          /\ posts[reqs[r].id].author_id = reqs[r].userId)
           => /\ reqs'[r].resp.status = 204
              /\ reqs[r].id \notin DOMAIN posts']_vars

\* request r is a Delete whose lookup runs on an id that is not in the table
DeleteOfMissing(r) ==
    /\ reqs[r].pc = "find"
    /\ \/ reqs[r].op = "deletePost" /\ reqs[r].id \notin PostIds
       \/ reqs[r].op = "deleteComment" /\ reqs[r].id \notin CommentIds

\* C12: a Delete of a post or comment whose id an earlier Delete has removed
\* is answered 404 and changes nothing; a 204 is only ever the answer of the
\* step that removes the row, and a removed id never comes back, so no id
\* gets a second 204.
C12_RepeatedDeleteIs404 ==
    [][/\ \A r \in Slots :
            (DeleteOfMissing(r) /\ Moved(r) /\ ~reqs'[r].failed)
              => /\ reqs'[r].pc = "done"
                 /\ reqs'[r].resp.status = 404
                 /\ posts' = posts /\ comments' = comments
       /\ \A r \in Slots :
            (Moved(r) /\ reqs'[r].resp.status = 204)
              => \/ /\ reqs[r].op = "deletePost"
                    /\ reqs[r].id \in PostIds /\ reqs[r].id \notin DOMAIN posts'
                 \/ /\ reqs[r].op = "deleteComment"
                    /\ reqs[r].id \in CommentIds /\ reqs[r].id \notin DOMAIN comments'
       /\ \A p \in 1..postSeq : p \notin PostIds => p \notin DOMAIN posts'
       /\ \A c \in 1..commentSeq : c \notin CommentIds => c \notin DOMAIN comments']_vars
C12_Witness ==
    \E r \in Slots :
        /\ Done(r) /\ reqs[r].op = "deletePost" /\ reqs[r].resp.status = 404
        /\ ~reqs[r].failed
        /\ reqs[r].id \in 1..postSeq /\ reqs[r].id \notin PostIds

\* the row already holds every field the payload supplies
AlreadyApplied(row, b) ==
    /\ b.title # Undefined => row.title = b.title
    /\ b.content # Undefined => row.content = b.content

\* C13: an Update by the author on an existing row is answered 200 and leaves
\* the row holding the supplied fields; applied to a row that already holds
\* them (the same Update a second time) it is answered 200 again and leaves
\* the store as it was, so twice gives the title, content and author_id of once.
C13_UpdateIdempotent ==
    [][/\ \A r \in Slots :
            (/\ reqs[r].op = "updatePost" /\ reqs[r].pc = "update"
             /\ Moved(r) /\ ~reqs'[r].failed /\ reqs[r].id \in PostIds)
              => /\ reqs'[r].resp.status = 200
                 /\ AlreadyApplied(posts'[reqs[r].id], reqs[r].body)
                 /\ AlreadyApplied(posts[reqs[r].id], reqs[r].body) => posts' = posts
       /\ \A r \in Slots :
            (/\ reqs[r].op = "updateComment" /\ reqs[r].pc = "update"
             /\ Moved(r) /\ ~reqs'[r].failed /\ reqs[r].id \in CommentIds)
              => /\ reqs'[r].resp.status = 200
                 /\ comments'[reqs[r].id].content = reqs[r].body.content
                 /\ comments[reqs[r].id].content = reqs[r].body.content
                      => comments' = comments]_vars
\* two identical Updates of the same post by the same caller, both answered
C13_Witness ==
    \E r, o \in Slots :
        /\ r # o /\ Done(r) /\ Done(o)
        /\ reqs[r].op = "updatePost" /\ reqs[o].op = "updatePost"
        /\ reqs[r].resp.status = 200 /\ reqs[o].resp.status = 200
        /\ reqs[r].id = reqs[o].id /\ reqs[r].body = reqs[o].body
        /\ reqs[r].userId = reqs[o].userId
        /\ reqs[r].id \in PostIds
        /\ posts[reqs[r].id].title = "Edited"
        /\ posts[reqs[r].id].content = "First post"
        /\ posts[reqs[r].id].author_id = reqs[r].userId

\* request r is answered with success by this step
Succeeds(r, op) ==
    /\ reqs[r].op = op /\ Moved(r)
    /\ reqs'[r].pc = "done" /\ reqs'[r].resp.status \in {200, 201}
\* the item of a returned array that carries id k
Item(out, k) == { out[i] : i \in {x \in DOMAIN out : out[x].id = k} }

\* C14: a successful Create Post (Create Comment) by caller u stores a new
\* row holding exactly the submitted title and content (content and
\* post_id) with author_id = u; a row changes or goes only in the step of an
\* Update or Delete aimed at it; and a successful Get Post, List Posts, List
\* Comments or List Comments-by-post returns each stored row once with the
\* title, content and author_id it holds.  So what was created is what is
\* read back until it is updated or deleted.
C14_RoundTrip ==
    [][/\ \A r \in ReadSlots :
            Succeeds(r, "createPost")
              => /\ DOMAIN posts' = PostIds \cup {reqs'[r].id}
                 /\ reqs'[r].id \notin PostIds
                 /\ posts'[reqs'[r].id].title = reqs[r].body.title
                 /\ posts'[reqs'[r].id].content = reqs[r].body.content
                 /\ posts'[reqs'[r].id].author_id = reqs[r].token.userId
       /\ \A r \in ReadSlots :
            Succeeds(r, "createComment")
              => /\ DOMAIN comments' = CommentIds \cup {reqs'[r].id}
                 /\ reqs'[r].id \notin CommentIds
                 /\ comments'[reqs'[r].id].content = reqs[r].body.content
                 /\ comments'[reqs'[r].id].post_id = reqs[r].body.post_id
                 /\ comments'[reqs'[r].id].author_id = reqs[r].token.userId
       /\ \A p \in PostIds :
            (p \notin DOMAIN posts' \/ posts'[p] # posts[p])
              => \E r \in ReadSlots : Moved(r) /\ PostWrite(reqs[r].op) /\ reqs[r].id = p
       /\ \A c \in CommentIds :
            (c \notin DOMAIN comments' \/ comments'[c] # comments[c])
              => \E r \in ReadSlots : Moved(r) /\ CommentWrite(reqs[r].op) /\ reqs[r].id = c
       /\ \A r \in ReadSlots :
            Succeeds(r, "getPost")
              => LET out == reqs'[r].data[1] IN
                 /\ Len(reqs'[r].data) = 1
                 /\ out.id = reqs[r].id
                 /\ out.title = posts[out.id].title
                 /\ out.content = posts[out.id].content
                 /\ out.author_id = posts[out.id].author_id
                 /\ { c.id : c \in { out.comments[i] : i \in DOMAIN out.comments } }
                      = { c \in CommentIds : comments[c].post_id = out.id }
                 /\ \A i \in DOMAIN out.comments :
                      /\ out.comments[i].content = comments[out.comments[i].id].content
                      /\ out.comments[i].author_id = comments[out.comments[i].id].author_id
       /\ \A r \in ReadSlots :
            Succeeds(r, "listPosts")
              => /\ Len(reqs'[r].data) = Cardinality(PostIds)
                 /\ \A p \in PostIds :
                      \E x \in Item(reqs'[r].data, p) :
                         /\ x.title = posts[p].title
                         /\ x.content = posts[p].content
                         /\ x.author_id = posts[p].author_id
       /\ \A r \in ReadSlots :
            Succeeds(r, "listCommentsByPost")
              => LET mine == { c \in CommentIds : comments[c].post_id = reqs[r].id } IN
                 /\ Len(reqs'[r].data) = Cardinality(mine)
                 /\ \A c \in mine :
                      \E x \in Item(reqs'[r].data, c) :
                         /\ x.content = comments[c].content
                         /\ x.author_id = comments[c].author_id
                         /\ x.post_id = comments[c].post_id
       /\ \A r \in ReadSlots :
            Succeeds(r, "listComments")
              => /\ Len(reqs'[r].data) = Cardinality(CommentIds)
                 /\ \A c \in CommentIds :
                      \E x \in Item(reqs'[r].data, c) :
                         /\ x.content = comments[c].content
                         /\ x.athor.id = comments[c].author_id]_vars
\* bob's post, read back by Get Post together with alice's comment on it
C14_Witness ==
    \E r \in ReadSlots :
        /\ Done(r) /\ reqs[r].op = "getPost" /\ reqs[r].resp.status = 200
        /\ Len(reqs[r].data) = 1
        /\ reqs[r].data[1].title = "Hello"
        /\ reqs[r].data[1].content = "First post"
        /\ reqs[r].data[1].author_id = 2
        /\ Len(reqs[r].data[1].comments) = 1
        /\ reqs[r].data[1].comments[1].content = "Nice post"
        /\ reqs[r].data[1].comments[1].author_id = 1

\* the array out lists exactly the rows ids of table rows, later created first
NewestFirst(out, ids, rows) ==
    /\ Len(out) = Cardinality(ids)
    /\ { out[i].id : i \in DOMAIN out } = ids
    /\ \A i, j \in DOMAIN out :
         rows[out[i].id].created_at > rows[out[j].id].created_at => i < j

\* C17: a successful List Posts returns exactly the posts that exist, and a
\* successful List Comments-by-post exactly the existing comments of that
\* post, each list with a row created later before a row created earlier:
\* rows created at t1 < t2 < t3 come in the order [t3, t2, t1].
C17_NewestFirst ==
    [][/\ \A r \in FeedSlots :
            Succeeds(r, "listPosts") => NewestFirst(reqs'[r].data, PostIds, posts)
       /\ \A r \in FeedSlots :
            Succeeds(r, "listCommentsByPost")
              => NewestFirst(reqs'[r].data,
                             { c \in CommentIds : comments[c].post_id = reqs[r].id },
                             comments)]_vars
\* three posts created at three different times, one deleted comment aside,
\* listed newest first
C17_Witness ==
    \E r \in FeedSlots :
        /\ Done(r) /\ reqs[r].op = "listPosts" /\ reqs[r].resp.status = 200
        /\ Len(reqs[r].data) = 3
        /\ reqs[r].data[1].id = 3 /\ reqs[r].data[1].created_at = 2 * TickStep
        /\ reqs[r].data[2].id = 2 /\ reqs[r].data[2].created_at = TickStep
        /\ reqs[r].data[3].id = 1 /\ reqs[r].data[3].created_at = 0
        /\ Cardinality(reqs[r].data[3].comments) = 2

\* every foreign key of the Post and Comment tables points at a row
ReferencesExist ==
    /\ \A p \in PostIds : posts[p].author_id \in UserIds
    /\ \A c \in CommentIds :
        /\ comments[c].post_id \in PostIds
        /\ comments[c].author_id \in UserIds

\* C15: in every reachable state, under any interleaving of Create Comment,
\* Delete Post and Delete Comment (and the other writes), every comment's
\* post_id is the id of an existing post and every post's and comment's
\* author_id is the id of an existing user; the store call of a Create
\* Comment that names a post_id not in the Post table stores no comment and
\* is not answered with a success.
C15_ReferentialIntegrity ==
    /\ []ReferencesExist
    /\ [][\A r \in Slots :
            (/\ reqs[r].op = "createComment" /\ reqs[r].pc = "create" /\ Moved(r)
             /\ reqs[r].body.post_id \notin PostIds)
              => /\ comments' = comments
                 /\ reqs'[r].resp.status = 500]_vars
\* a Create Comment overtaken by the Delete of its post: no comment is stored
C15_Witness ==
    \E r, o \in Slots :
        /\ Done(r) /\ reqs[r].op = "createComment" /\ reqs[r].resp.status = 500
        /\ ~reqs[r].failed
        /\ reqs[r].body.post_id \in 1..postSeq /\ reqs[r].body.post_id \notin PostIds
        /\ Done(o) /\ reqs[o].op = "deletePost" /\ reqs[o].resp.status = 204
        /\ reqs[o].id = reqs[r].body.post_id
        /\ comments = << >>

\* request r has passed its ownership check and the row it is about to
\* write or remove has been deleted since
GoneAtMutation(r) ==
    /\ reqs[r].pc \in {"update", "delete"}
    /\ \/ PostWrite(reqs[r].op) /\ reqs[r].id \notin PostIds
       \/ CommentWrite(reqs[r].op) /\ reqs[r].id \notin CommentIds

\* C16: when a post or comment is deleted by another request between a
\* request's ownership check and its store mutation, the mutation is
\* answered 500 or 404, never with a success status, and the store is left
\* as it was: the row stays deleted.
C16_LostRowIsAnError ==
    [][\A r \in Slots :
         (GoneAtMutation(r) /\ Moved(r))
           => /\ reqs'[r].pc = "done"
              /\ reqs'[r].resp.status \in {500, 404}
              /\ posts' = posts /\ comments' = comments]_vars
C16_Witness ==
    \E r, o \in Slots :
        /\ Done(r) /\ reqs[r].op = "updatePost" /\ reqs[r].resp.status = 500
        /\ ~reqs[r].failed /\ reqs[r].calls = 2
        /\ reqs[r].id \in 1..postSeq /\ reqs[r].id \notin PostIds
        /\ Done(o) /\ reqs[o].op = "deletePost" /\ reqs[o].resp.status = 204
        /\ reqs[o].id = reqs[r].id

\* at least one of title and content is supplied and every supplied one is
\* within its length bounds
Acceptable(b) ==
    /\ (b.title # Undefined /\ b.title # "") \/ (b.content # Undefined /\ b.content # "")
    /\ b.title # Undefined => (Len(b.title) >= TitleMin /\ Len(b.title) <= TitleMax)
    /\ b.content # Undefined => Len(b.content) >= ContentMin

\* C18: an Update Post whose payload supplies neither title nor content, or
\* a supplied field outside its length bounds, is answered 400 without a
\* store call; one whose payload is acceptable is never answered 400; and
\* no step that answers 400 changes the store.
C18_UpdateNeedsAField ==
    /\ [](\A r \in Slots :
            (reqs[r].op = "updatePost" /\ ~reqs[r].escaped)
              => IF Acceptable(reqs[r].body)
                 THEN reqs[r].resp.status # 400
                 ELSE /\ reqs[r].pc = "done" /\ reqs[r].resp.status = 400
                      /\ reqs[r].calls = 0)
    /\ [][\A r \in Slots :
            (Moved(r) /\ reqs'[r].resp.status = 400) => UNCHANGED store]_vars
C18_Witness ==
    \E r \in Slots :
        /\ Done(r) /\ reqs[r].op = "updatePost" /\ reqs[r].resp.status = 400
        /\ reqs[r].body.title = Undefined /\ reqs[r].body.content = Undefined
        /\ reqs[r].id \in PostIds
        /\ posts[reqs[r].id].author_id = reqs[r].userId
        /\ posts[reqs[r].id].title = "Hello"

\* C19: the step of an Update Post that is answered 200 replaces exactly the
\* supplied fields of the row: a field the payload leaves out keeps its
\* value, the row keeps its id and its author_id, and no other row changes.
C19_PartialReplacement ==
    [][\A r \in Slots :
         (/\ reqs[r].op = "updatePost" /\ reqs[r].pc = "update"
          /\ Moved(r) /\ reqs'[r].resp.status = 200)
           => /\ reqs[r].id \in PostIds
              /\ DOMAIN posts' = PostIds
              /\ LET old == posts[reqs[r].id]
                     new == posts'[reqs[r].id]
                     b == reqs[r].body
                 IN /\ new.title = IF b.title # Undefined THEN b.title ELSE old.title
                    /\ new.content = IF b.content # Undefined THEN b.content ELSE old.content
                    /\ new.author_id = old.author_id
              /\ \A p \in PostIds \ {reqs[r].id} : posts'[p] = posts[p]]_vars
C19_Witness ==
    \E r \in Slots :
        /\ Done(r) /\ reqs[r].op = "updatePost" /\ reqs[r].resp.status = 200
        /\ reqs[r].body.title = Undefined /\ reqs[r].body.content = "New content"
        /\ reqs[r].id \in PostIds
        /\ posts[reqs[r].id].title = "Hello"
        /\ posts[reqs[r].id].content = "New content"

\* C20: no step changes the author_id of a post or the author_id or post_id
\* of a comment that exists before and after it, and a row that appears
\* takes an id never handed out before, so every existing row holds the
\* values it was created with.
C20_OwnershipImmutable ==
    [][/\ \A p \in PostIds \cap DOMAIN posts' :
            posts'[p].author_id = posts[p].author_id
       /\ \A c \in CommentIds \cap DOMAIN comments' :
            /\ comments'[c].author_id = comments[c].author_id
            /\ comments'[c].post_id = comments[c].post_id
       /\ \A p \in (DOMAIN posts') \ PostIds : p > postSeq
       /\ \A c \in (DOMAIN comments') \ CommentIds : c > commentSeq]_vars
\* bob's comment on alice's post, both edited by their authors
C20_Witness ==
    \E r \in Slots : \E c \in CommentIds :
        /\ Done(r) /\ reqs[r].op = "updatePost" /\ reqs[r].resp.status = 200
        /\ reqs[r].id \in PostIds
        /\ posts[reqs[r].id].title = "Edited"
        /\ posts[reqs[r].id].author_id = reqs[r].userId
        /\ comments[c].post_id = reqs[r].id
        /\ comments[c].content = "Edited comment"
        /\ comments[c].author_id # reqs[r].userId

\* C21: no step removes a registered user or changes its id, username, email
\* or stored password: every user row is, after the step, the row it was
\* before, so it stays the row written at registration.
C21_UsersImmutable ==
    [][\A u \in UserIds : u \in DOMAIN users' /\ users'[u] = users[u]]_vars
\* a second registration with alice's e-mail was refused and alice's row is
\* still the one of the first registration
C21_Witness ==
    \E r \in Slots :
        /\ Done(r) /\ reqs[r].op = "register" /\ reqs[r].resp.status = 409
        /\ ~reqs[r].failed
        /\ reqs[r].body = RegBody("bob", "a@x", "password2")
        /\ Len(users) >= 1
        /\ users[1] = [username |-> "alice", email |-> "a@x",
                       password |-> Hash("password1", "s1")]

\* C26: every Login whose payload passes validation, once answered, has made
\* exactly one lookup in the store (the lookup not failing).
C26_OneLookup ==
    \A r \in Slots :
        (/\ reqs[r].op = "login" /\ Done(r)
         /\ SigninSchem(reqs[r].body) /\ ~reqs[r].failed)
          => reqs[r].calls = 1

\* requests r and o are two answered Deletes of the same row by the same
\* caller, in flight together, the first of them past the ownership check
TwoDeletes(r, o) ==
    /\ r # o /\ Done(r) /\ Done(o)
    /\ reqs[r].op \in {"deletePost", "deleteComment"} /\ reqs[o].op = reqs[r].op
    /\ reqs[r].id = reqs[o].id /\ reqs[r].userId = reqs[o].userId
    /\ ~reqs[r].failed /\ ~reqs[o].failed
    /\ reqs[r].calls = 2

\* C27: of two concurrent Deletes by the author on the same existing post
\* (or comment) at most one is answered 204, each is answered 204, 404 or
\* 500, and afterwards the row is absent (no store call failing).
C27_OneDeleteWins ==
    \A r, o \in Slots :
        TwoDeletes(r, o)
          => /\ ~(reqs[r].resp.status = 204 /\ reqs[o].resp.status = 204)
             /\ reqs[r].resp.status \in {204, 404, 500}
             /\ reqs[o].resp.status \in {204, 404, 500}
             /\ reqs[r].op = "deletePost" => reqs[r].id \notin PostIds
             /\ reqs[r].op = "deleteComment" => reqs[r].id \notin CommentIds

\* requests r and o are two answered Updates of the same existing post, in
\* flight together and both past the ownership check, r supplying only a
\* title and o only a content
TitleAndContent(r, o) ==
    /\ r # o /\ Done(r) /\ Done(o)
    /\ reqs[r].op = "updatePost" /\ reqs[o].op = "updatePost"
    /\ reqs[r].id = reqs[o].id /\ reqs[r].id \in PostIds
    /\ reqs[r].body.title # Undefined /\ reqs[r].body.content = Undefined
    /\ reqs[o].body.title = Undefined /\ reqs[o].body.content # Undefined
    /\ reqs[r].calls = 2 /\ reqs[o].calls = 2
    /\ ~reqs[r].failed /\ ~reqs[o].failed

\* C28: two concurrent Update Posts by the author on the same post, one
\* supplying only title and the other only content, are both answered 200
\* and, whatever the interleaving, the stored post holds both new values.
C28_BothUpdatesLand ==
    \A r, o \in Slots :
        TitleAndContent(r, o)
          => /\ reqs[r].resp.status = 200 /\ reqs[o].resp.status = 200
             /\ posts[reqs[r].id].title = reqs[r].body.title
             /\ posts[reqs[r].id].content = reqs[o].body.content
C28_Witness ==
    \E r, o \in Slots :
        /\ TitleAndContent(r, o)
        /\ reqs[r].userId = reqs[o].userId
        /\ posts[reqs[r].id].author_id = reqs[r].userId
        /\ posts[reqs[r].id].title = "Edited"
        /\ posts[reqs[r].id].content = "New content"

\* C29: every stored post and comment has as author_id the id of a
\* registered user who is the subject of a token that Login has issued.
C29_AuthorLoggedIn ==
    /\ \A p \in PostIds :
         /\ posts[p].author_id \in UserIds
         /\ \E t \in issued : t.userId = posts[p].author_id
    /\ \A c \in CommentIds :
         /\ comments[c].author_id \in UserIds
         /\ \E t \in issued : t.userId = comments[c].author_id
\* alice's post is stored, and a comment sent under a token made up for bob,
\* who never logged in, has been refused
C29_Witness ==
    \E r \in GuardSlots : \E p \in PostIds :
        /\ posts[p].author_id = 1
        /\ Done(r) /\ reqs[r].op = "createComment"
        /\ reqs[r].token = Forged(2)
        /\ reqs[r].calls = 0 /\ reqs[r].resp.status = 500
        /\ comments = << >>

ReadOps == {"login", "listPosts", "getPost", "listComments", "listCommentsByPost"}

\* C30: no step of a Login, List Posts, Get Post, List Comments or List
\* Comments-by-post, whatever its outcome, changes the users, the posts or
\* the comments.
C30_ReadsChangeNothing ==
    [][\A r \in ReadSlots :
         (Moved(r) /\ reqs'[r].op \in ReadOps) => UNCHANGED store]_vars
\* a post read back some time after it was written
C30_Witness ==
    \E r \in ReadSlots :
        /\ Done(r) /\ reqs[r].op = "getPost" /\ reqs[r].resp.status = 200
        /\ Len(reqs[r].data) = 1
        /\ reqs[r].data[1].created_at < now
        /\ posts[reqs[r].id].created_at = reqs[r].data[1].created_at

\* the comments included in a returned post: an array on Get Post, an
\* unordered collection on List Posts
Included(op, x) ==
    IF op = "getPost" THEN { x.comments[i] : i \in DOMAIN x.comments } ELSE x.comments
\* the returned item x, or a user or comment included in it, carries a
\* password field
CarriesPassword(op, x) ==
    \/ "password" \in DOMAIN x
    \/ "author" \in DOMAIN x /\ "password" \in DOMAIN x.author
    \/ "athor" \in DOMAIN x /\ "password" \in DOMAIN x.athor
    \/ /\ "comments" \in DOMAIN x
       /\ \E c \in Included(op, x) :
            "password" \in DOMAIN c \/ "password" \in DOMAIN c.athor

\* C22: the row a successful registration adds holds the bcrypt hash of the
\* submitted password; every stored password is such a hash; and nothing
\* that a response of register, login, or a post or comment read or write
\* carries (its items, the users and comments included in them, the token's
\* payload) has a password field.
C22_PasswordStaysInside ==
    /\ [](\A u \in UserIds : users[u].password.alg = "bcrypt")
    /\ [](\A r \in PrivacySlots :
            /\ \A i \in DOMAIN reqs[r].data : ~CarriesPassword(reqs[r].op, reqs[r].data[i])
            /\ "password" \notin DOMAIN reqs[r].token_out
            /\ "password" \notin DOMAIN reqs[r].resp)
    /\ [][\A r \in PrivacySlots :
            Succeeds(r, "register")
              => /\ Len(users') = Len(users) + 1
                 /\ \E salt \in Salts :
                      users'[Len(users')].password = Hash(reqs[r].body.password, salt)]_vars
\* bob's post read back with alice's comment: both users are included
C22_Witness ==
    \E r \in PrivacySlots :
        /\ Done(r) /\ reqs[r].op = "getPost" /\ reqs[r].resp.status = 200
        /\ Len(reqs[r].data) = 1
        /\ reqs[r].data[1].author.username = "bob"
        /\ Len(reqs[r].data[1].comments) = 1
        /\ reqs[r].data[1].comments[1].athor.username = "alice"
        /\ \E u \in UserIds : users[u].password = Hash("password1", "s1")

\* C23: in every reachable state every stored post has a title of 3 to 20
\* characters and a content of at least 3 characters, and every stored
\* comment has a content of 3 to 500 characters.
C23_StoredLengths ==
    /\ \A p \in PostIds :
         /\ Len(posts[p].title) >= 3 /\ Len(posts[p].title) <= 20
         /\ Len(posts[p].content) >= 3
    /\ \A c \in CommentIds :
         Len(comments[c].content) >= 3 /\ Len(comments[c].content) <= 500
\* an edited comment is stored and an edit of 501 characters was refused
C23_Witness ==
    \E r \in OrderSlots : \E c \in CommentIds :
        /\ Done(r) /\ reqs[r].op = "updateComment" /\ reqs[r].resp.status = 400
        /\ Len(reqs[r].body.content) = 501
        /\ reqs[r].id = c
        /\ comments[c].content = "Edited comment"
        /\ posts[comments[c].post_id].title = "Edited"

\* the payload of an Update is within the bounds of its resource
AcceptableUpdate(q) ==
    IF q.op = "updatePost" THEN Acceptable(q.body)
    ELSE /\ q.body.content # Undefined
         /\ Len(q.body.content) >= 3 /\ Len(q.body.content) <= 500
TargetExists(q) ==
    IF q.op = "updatePost" THEN q.id \in PostIds ELSE q.id \in CommentIds
TargetAuthor(q) ==
    IF q.op = "updatePost" THEN posts[q.id].author_id ELSE comments[q.id].author_id

\* C25: on Update Post and Update Comment the checks run in the order
\* guard, payload, existence, ownership, and the first to fail answers: a
\* request the guard refuses gets the authorization failure (404 "Not
\* Authorized") whatever its payload, with no store call; a request with an
\* unacceptable payload gets 400 with no store call, whether or not its
\* target exists or is the caller's; a lookup that finds no target answers
\* 404 for every caller; and 403 is only ever the answer of a lookup that
\* found the target with another author.
C25_CheckOrder ==
    /\ [](\A r \in OrderSlots :
            reqs[r].op \in {"updatePost", "updateComment"}
              => /\ GuardRefuses(reqs[r])
                      => /\ Done(r) /\ reqs[r].calls = 0 /\ reqs[r].userId = NoUser
                         /\ reqs[r].resp = NotAuthorized
                 /\ (~GuardRefuses(reqs[r]) /\ ~AcceptableUpdate(reqs[r]))
                      => /\ Done(r) /\ reqs[r].calls = 0
                         /\ reqs[r].resp.status = 400
                 /\ reqs[r].calls > 0
                      => ~GuardRefuses(reqs[r]) /\ AcceptableUpdate(reqs[r]))
    /\ [][\A r \in OrderSlots :
            (/\ reqs[r].op \in {"updatePost", "updateComment"} /\ reqs[r].pc = "find"
             /\ Moved(r) /\ ~reqs'[r].failed)
              => /\ ~TargetExists(reqs[r]) => reqs'[r].resp.status = 404
                 /\ reqs'[r].resp.status = 403
                      => /\ TargetExists(reqs[r])
                         /\ TargetAuthor(reqs[r]) # reqs[r].userId]_vars
\* the comment operations of the interface table, by method and path
InterfaceTable(m, path) ==
    \/ m \in {"POST", "GET"} /\ path = <<"comments">>
    \/ m \in {"PUT", "DELETE"} /\ Len(path) = 2 /\ path[1] = "comments"
    \/ m = "GET" /\ Len(path) = 3 /\ path[1] = "comments" /\ path[2] = "post"

\* C24: a request with a valid token at a method and path that the interface
\* table gives to a comment operation is served by a handler: it is never
\* left without a route.
C24_CommentRoutes ==
    \A r \in RouteSlots :
        (reqs[r].op = "unrouted" /\ Verify(reqs[r].token, JWT_SECRET, reqs[r].at))
          => ~InterfaceTable(reqs[r].method, reqs[r].path)

TypeOK ==
    /\ now \in 0..(MaxClock + TickStep)
    /\ postSeq \in 0..MaxListed
    /\ Len(users) <= MaxUsers

====
